---- MODULE Spec2Model ----
(***************************************************************************)
(* Page tiling and layout of pathfinder.mapmaker: split_image (with its    *)
(* nested get_page_size, pages, zero_if_one and crop_for), make_pdf (with  *)
(* its nested tick) and process_image_with_border.                         *)
(*                                                                         *)
(* Lengths in the source are Python floats.  Here every length is an exact *)
(* rational <<numerator, denominator>> with a positive denominator, in     *)
(* lowest terms, so that equal lengths are equal values.  Paper sizes,     *)
(* borders and overlaps are whole millimetres.                             *)
(***************************************************************************)
EXTENDS Integers, Sequences, FiniteSets, TLC

VARIABLES
    width_pixels, height_pixels,     \* im.size
    squares_wide, squares_high,
    border_north, border_east, border_south, border_west,
    overlap_east, overlap_south,
    paper,
    pc,          \* "start", "split", "failed", "pdf", "bordered"
    error,       \* the exception that ended split_image, or "none"
    plan,        \* the locals of split_image after get_page_size
    images,      \* the dict returned by split_image
    pdf,         \* the pages make_pdf added, in order
    image_spec   \* the dict returned by process_image_with_border

inputs == <<width_pixels, height_pixels, squares_wide, squares_high,
            border_north, border_east, border_south, border_west,
            overlap_east, overlap_south, paper>>

vars == <<inputs, pc, error, plan, images, pdf, image_spec>>

(***************************************************************************)
(* Bounds of the model.                                                    *)
(***************************************************************************)
\* squares_wide and squares_high are 4, 8, ... up to 4 * MaxSquareUnits
MaxSquareUnits == 2

SquareChoices == { 4 * k : k \in 1..MaxSquareUnits }
\* im.size: each side 400 or 800 pixels, so the two axes' scales may differ
PixelChoices == {400, 800}
\* North and west margins: none, or the default.
NearBorderChoices == {0, 5}
\* East and south margins: the default, half of A4's width, all of A4's width
\* (with the other margin the printable width is then zero or negative).
FarBorderChoices == {5, 105, 210}
\* Overlaps: none, the default, and one wider than a narrow printable span.
OverlapChoices == {0, 10, 110}
PaperChoices == {"A4", "A3"}

(***************************************************************************)
(* Exact arithmetic standing for Python's float arithmetic.                *)
(***************************************************************************)
Abs(i) == IF i < 0 THEN -i ELSE i

RECURSIVE Gcd(_, _)
Gcd(a, b) == IF b = 0 THEN a ELSE Gcd(b, a % b)

\* n / d for d # 0
Rat(n, d) ==
    LET g == Gcd(Abs(n), Abs(d))
        s == IF d < 0 THEN -1 ELSE 1
    IN  <<(s * n) \div g, (s * d) \div g>>

Whole(i) == <<i, 1>>
RAdd(p, q) == Rat(p[1] * q[2] + q[1] * p[2], p[2] * q[2])
RSub(p, q) == Rat(p[1] * q[2] - q[1] * p[2], p[2] * q[2])
RMul(p, q) == Rat(p[1] * q[1], p[2] * q[2])
\* p / q for q # 0
RDiv(p, q) == Rat(p[1] * q[2], p[2] * q[1])
RLe(p, q) == p[1] * q[2] <= q[1] * p[2]
RLt(p, q) == p[1] * q[2] < q[1] * p[2]
\* Python's min(p, q): q only when q < p
RMin(p, q) == IF RLt(q, p) THEN q ELSE p
\* math.ceil
RCeil(p) == -((-p[1]) \div p[2])
RFloor(p) == p[1] \div p[2]
\* Python's round(): to the nearest integer, a tie to the even one
RRound(p) ==
    LET f == RFloor(p)
        twice == 2 * (p[1] - f * p[2])
    IN  IF twice < p[2] THEN f
        ELSE IF twice > p[2] THEN f + 1
        ELSE IF f % 2 = 0 THEN f ELSE f + 1

(***************************************************************************)
(* Paper                                                                   *)
(***************************************************************************)
Paper ==
    [ A4 |-> [width |-> 210, height |-> 297],
      A3 |-> [width |-> 297, height |-> 420],
      A2 |-> [width |-> 420, height |-> 594],
      A1 |-> [width |-> 594, height |-> 841],
      A0 |-> [width |-> 841, height |-> 1189] ]

MmPerInch == Rat(254, 10)

(***************************************************************************)
(* split_image: the scale                                                  *)
(***************************************************************************)
\* variant of PixelsPerMm: the larger of the two axis scales
PixelsPerMmMax(wp, hp, sw, sh) ==
    LET a == RDiv(Whole(wp), RMul(Whole(sw), MmPerInch))
        b == RDiv(Whole(hp), RMul(Whole(sh), MmPerInch))
    IN  IF RLt(a, b) THEN b ELSE a

\* min(width_pixels / (squares_wide * 25.4), height_pixels / (squares_high * 25.4))
PixelsPerMm(wp, hp, sw, sh) ==
    RMin(RDiv(Whole(wp), RMul(Whole(sw), MmPerInch)),
         RDiv(Whole(hp), RMul(Whole(sh), MmPerInch)))

(***************************************************************************)
(* split_image.get_page_size                                               *)
(***************************************************************************)
\* math.ceil(size / printable_size) for printable_size # 0
CeilOver(size, printable_size) == RCeil(RDiv(size, Whole(printable_size)))

\* pages(size, printable_size, overlap) raises ZeroDivisionError
PagesRaises(size, printable_size, overlap) ==
    \/ printable_size = 0
    \/ /\ CeilOver(size, printable_size) # 1
       /\ printable_size + overlap = 0

\* variant of Pages: the overlap counted as part of the extent to print
PagesOverlapInExtent(size, printable_size, overlap) ==
    CeilOver(RAdd(size, Whole(overlap)), printable_size)

\* variant of Pages: one page more on an axis of several pages
PagesOneMore(size, printable_size, overlap) ==
    IF CeilOver(size, printable_size) = 1
    THEN 1
    ELSE CeilOver(size, printable_size + overlap) + 1

\* pages(size, printable_size, overlap) where it does not raise
Pages(size, printable_size, overlap) ==
    IF CeilOver(size, printable_size) = 1
    THEN 1
    ELSE CeilOver(size, printable_size + overlap)

\* variant of zero_if_one: the value also for a single page
ZeroIfOneNever(test, value) == value

zero_if_one(test, value) == IF test = 1 THEN 0 ELSE value

\* variant of UseLandscape: landscape also on a tie
UseLandscapeOnTie(count_p, count_l) == count_p >= count_l

\* the test that selects landscape
UseLandscape(count_p, count_l) == count_p > count_l

NoPlan(err) ==
    [ err |-> err, orientation |-> "none",
      pages_horizontal |-> 0, pages_vertical |-> 0,
      page_width |-> 0, page_height |-> 0,
      printable_width |-> 0, printable_height |-> 0,
      pages_horizontal_p |-> 0, pages_vertical_p |-> 0,
      pages_horizontal_l |-> 0, pages_vertical_l |-> 0 ]

\* get_page_size() for an image of width_mm x height_mm on paper pw x ph
\* with borders bn, be, bs, bw and overlaps oe, os
GetPageSize(width_mm, height_mm, pw, ph, bn, be, bs, bw, oe, os) ==
    LET printable_width == pw - (be + bw)
        printable_height == ph - (bn + bs)
    IN  IF \/ PagesRaises(width_mm, printable_width, oe)
           \/ PagesRaises(height_mm, printable_height, os)
           \/ PagesRaises(width_mm, printable_height, os)
           \/ PagesRaises(height_mm, printable_width, oe)
        THEN NoPlan("ZeroDivisionError")
        ELSE
        LET pages_horizontal_p == Pages(width_mm, printable_width, oe)
            pages_vertical_p == Pages(height_mm, printable_height, os)
            pages_horizontal_l == Pages(width_mm, printable_height, os)
            pages_vertical_l == Pages(height_mm, printable_width, oe)
            locals == [ printable_width |-> printable_width,
                        printable_height |-> printable_height,
                        pages_horizontal_p |-> pages_horizontal_p,
                        pages_vertical_p |-> pages_vertical_p,
                        pages_horizontal_l |-> pages_horizontal_l,
                        pages_vertical_l |-> pages_vertical_l ]
        IN  IF UseLandscape(pages_horizontal_p * pages_vertical_p,
                            pages_horizontal_l * pages_vertical_l)
            THEN [ err |-> "none", orientation |-> "L",
                   pages_horizontal |-> pages_horizontal_l,
                   pages_vertical |-> pages_vertical_l,
                   page_width |-> printable_height - zero_if_one(pages_horizontal_l, os),
                   page_height |-> printable_width - zero_if_one(pages_vertical_l, oe) ]
                 @@ locals
            ELSE [ err |-> "none", orientation |-> "P",
                   pages_horizontal |-> pages_horizontal_p,
                   pages_vertical |-> pages_vertical_p,
                   page_width |-> printable_width - zero_if_one(pages_horizontal_p, oe),
                   page_height |-> printable_height - zero_if_one(pages_vertical_p, os) ]
                 @@ locals

(***************************************************************************)
(* split_image: the crops and the returned dict                            *)
(***************************************************************************)
\* the locals crop_for closes over
Geometry(wp, hp, ppm, pl, oe, os) ==
    [ width_pixels |-> Whole(wp),
      height_pixels |-> Whole(hp),
      pixel_width_page |-> RMul(Whole(pl.page_width), ppm),
      pixel_height_page |-> RMul(Whole(pl.page_height), ppm),
      overlap_east_pixels |->
          IF pl.orientation = "P" THEN RMul(ppm, Whole(oe)) ELSE RMul(ppm, Whole(os)),
      overlap_south_pixels |->
          IF pl.orientation = "P" THEN RMul(ppm, Whole(os)) ELSE RMul(ppm, Whole(oe)) ]

\* the list 'borders': north, east, south, west of the page as printed
Borders(orientation, bn, be, bs, bw, oe, os) ==
    IF orientation = "P"
    THEN <<bn, be + oe, bs + os, bw>>
    ELSE <<be, bs + oe, bw + os, bn>>

\* the box crop_for(page_x, page_y) hands to im.crop: left, upper, right, lower
CropBox(g, page_x, page_y) ==
    << RMul(Whole(page_x), g.pixel_width_page),
       RMul(Whole(page_y), g.pixel_height_page),
       RMin(g.width_pixels,
            RAdd(RMul(Whole(page_x + 1), g.pixel_width_page), g.overlap_east_pixels)),
       RMin(g.height_pixels,
            RAdd(RMul(Whole(page_y + 1), g.pixel_height_page), g.overlap_south_pixels)) >>

\* Image.crop raises ValueError when right < left or lower < upper
CropRaises(box) == RLt(box[3], box[1]) \/ RLt(box[4], box[2])

\* the cropped image: the box asked for, and the image's .size, which
\* Image.crop takes from the box's coordinates rounded to integers
Crop(box) ==
    [ box |-> box,
      size |-> << Abs(RRound(box[3]) - RRound(box[1])),
                  Abs(RRound(box[4]) - RRound(box[2])) >> ]

Digit == <<"0", "1", "2", "3", "4", "5", "6", "7", "8", "9">>

\* str(n) for n >= 0, as a sequence of characters
RECURSIVE Str(_)
Str(n) == IF n < 10 THEN <<Digit[n + 1]>>
          ELSE Str(n \div 10) \o <<Digit[(n % 10) + 1]>>

\* variant of FormatCoords: the two coordinates swapped
FormatCoordsSwapped(x, y) == Str(y) \o <<"_">> \o Str(x)

\* '{}_{}'.format(x, y)
FormatCoords(x, y) == Str(x) \o <<"_">> \o Str(y)

\* d[key] = value on a dict kept as the sequence of its items in insertion order
DictSet(d, key, value) ==
    IF \E i \in 1..Len(d) : d[i].key = key
    THEN [ i \in 1..Len(d) |->
             IF d[i].key = key THEN [key |-> key, image |-> value] ELSE d[i] ]
    ELSE Append(d, [key |-> key, image |-> value])

\* { '{}_{}'.format(x, y): crop_for(x, y)
\*     for x in range(pages_horizontal) for y in range(pages_vertical) }
RECURSIVE ForY(_, _, _, _, _)
ForY(g, pages_vertical, x, y, d) ==
    IF y >= pages_vertical THEN d
    ELSE ForY(g, pages_vertical, x, y + 1,
              DictSet(d, FormatCoords(x, y), Crop(CropBox(g, x, y))))

RECURSIVE ForX(_, _, _, _, _)
ForX(g, pages_horizontal, pages_vertical, x, d) ==
    IF x >= pages_horizontal THEN d
    ELSE ForX(g, pages_horizontal, pages_vertical, x + 1,
              ForY(g, pages_vertical, x, 0, d))

TileImages(g, pages_horizontal, pages_vertical) ==
    ForX(g, pages_horizontal, pages_vertical, 0, <<>>)

\* some crop_for(x, y) of the comprehension raises
TilesRaise(g, pages_horizontal, pages_vertical) ==
    \E x \in 0..(pages_horizontal - 1) : \E y \in 0..(pages_vertical - 1) :
        CropRaises(CropBox(g, x, y))

NoImages ==
    [ pixels_per_mm |-> Whole(0), images |-> <<>>, orientation |-> "none",
      border |-> <<0, 0, 0, 0>>, pages_horizontal |-> 0, pages_vertical |-> 0,
      paper |-> "none" ]

NoLocals == [ pixels_per_mm |-> Whole(0), width_mm |-> Whole(0), height_mm |-> Whole(0) ]

(***************************************************************************)
(* make_pdf                                                                *)
(***************************************************************************)
TickSize == 5
TickGap == 1

\* one call of pdf.line or pdf.dashed_line; dir is the branch of tick that drew it
Line(x1, y1, x2, y2, dash, dir) ==
    [ x1 |-> x1, y1 |-> y1, x2 |-> x2, y2 |-> y2, dash |-> dash, dir |-> dir ]

\* tick(x, y, n=, e=, s=, w=, dash=) with the default size and gap, on a sheet
\* of page_width x page_height: the lines it draws, in order
Tick(x, y, n, e, s, w, dash, page_width, page_height) ==
    LET size == Whole(TickSize)
        gap == Whole(TickGap)
        zero == Whole(0)
        west == IF ~w THEN <<>>
                ELSE IF RLe(x, size)
                     THEN <<Line(RSub(x, gap), y, zero, y, dash, "w")>>
                     ELSE <<Line(RSub(x, gap), y, RSub(x, size), y, dash, "w")>>
        east == IF ~e THEN <<>>
                ELSE IF RLe(RSub(Whole(page_width), x), size)
                     THEN <<Line(RAdd(x, gap), y, Whole(page_width), y, dash, "e")>>
                     ELSE <<Line(RAdd(x, gap), y, RAdd(x, size), y, dash, "e")>>
        north == IF ~n THEN <<>>
                 ELSE IF RLe(y, size)
                      THEN <<Line(x, RSub(y, gap), x, zero, dash, "n")>>
                      ELSE <<Line(x, RSub(y, gap), x, RSub(y, size), dash, "n")>>
        south == IF ~s THEN <<>>
                 ELSE IF RLe(RSub(Whole(page_height), y), size)
                      THEN <<Line(x, RAdd(y, gap), x, Whole(page_height), dash, "s")>>
                      ELSE <<Line(x, RAdd(y, gap), x, RAdd(y, size), dash, "s")>>
    IN  west \o east \o north \o south

IsDigit(c) == \E i \in 1..10 : Digit[i] = c
DigitValue(c) == CHOOSE i \in 0..9 : Digit[i + 1] = c

\* the length of the longest run of digits of s that starts at index from
RECURSIVE DigitRun(_, _)
DigitRun(s, from) ==
    IF from > Len(s) \/ ~IsDigit(s[from]) THEN 0 ELSE 1 + DigitRun(s, from + 1)

\* int(s) for a sequence of digits
RECURSIVE ToInt(_)
ToInt(s) == IF Len(s) = 0 THEN 0
            ELSE 10 * ToInt(SubSeq(s, 1, Len(s) - 1)) + DigitValue(s[Len(s)])

\* re.match(r'(\d+)_(\d+)', coords), then int() of the two groups;
\* <<-1, -1>> stands for no match
ParseCoords(coords) ==
    LET n1 == DigitRun(coords, 1)
        n2 == DigitRun(coords, n1 + 2)
    IN  IF n1 > 0 /\ n1 + 1 <= Len(coords) /\ coords[n1 + 1] = "_" /\ n2 > 0
        THEN << ToInt(SubSeq(coords, 1, n1)), ToInt(SubSeq(coords, n1 + 2, n1 + 1 + n2)) >>
        ELSE << -1, -1 >>

\* variant of IsLast: compared with the count, not the last index
IsLastOffByOne(index, pages) == index = pages

\* last_vertical, last_horizontal
IsLast(index, pages) == index = pages - 1

\* one iteration of the loop of make_pdf: the page added for an item of
\* images['images']
PdfPage(item, imgs) ==
    LET ppm == imgs.pixels_per_mm
        b_north == imgs.border[1]
        b_east == imgs.border[2]
        b_south == imgs.border[3]
        b_west == imgs.border[4]
        page_width == IF imgs.orientation = "P" THEN Paper[imgs.paper].width
                      ELSE Paper[imgs.paper].height
        page_height == IF imgs.orientation = "P" THEN Paper[imgs.paper].height
                       ELSE Paper[imgs.paper].width
        xy == ParseCoords(item.key)
        x == xy[1]
        y == xy[2]
        im_width_mm == RDiv(Whole(item.image.size[1]), ppm)
        im_height_mm == RDiv(Whole(item.image.size[2]), ppm)
        last_vertical == IsLast(y, imgs.pages_vertical)
        last_horizontal == IsLast(x, imgs.pages_horizontal)
        bw == Whole(b_west)
        bn == Whole(b_north)
        corners ==
            Tick(bw, bn, TRUE, FALSE, FALSE, TRUE, FALSE, page_width, page_height)
            \o Tick(bw, RAdd(bn, im_height_mm), FALSE, FALSE, TRUE, TRUE, FALSE,
                    page_width, page_height)
            \o Tick(RAdd(bw, im_width_mm), RAdd(bn, im_height_mm), FALSE, TRUE, TRUE, FALSE,
                    FALSE, page_width, page_height)
            \o Tick(RAdd(bw, im_width_mm), bn, TRUE, TRUE, FALSE, FALSE, FALSE,
                    page_width, page_height)
        east_cut ==
            IF ~last_horizontal
            THEN Tick(Whole(page_width - b_east), RAdd(im_height_mm, bn), FALSE, FALSE, TRUE,
                      FALSE, TRUE, page_width, page_height)
                 \o Tick(Whole(page_width - b_east), bn, TRUE, FALSE, FALSE, FALSE, TRUE,
                         page_width, page_height)
            ELSE <<>>
        south_cut ==
            IF ~last_vertical
            THEN Tick(bw, Whole(page_height - b_south), FALSE, FALSE, FALSE, TRUE, TRUE,
                      page_width, page_height)
                 \o Tick(RAdd(bw, im_width_mm), Whole(page_height - b_south), FALSE, TRUE,
                         FALSE, FALSE, TRUE, page_width, page_height)
            ELSE <<>>
    IN  [ coords |-> item.key, x |-> x, y |-> y,
          page_width |-> page_width, page_height |-> page_height,
          lines |-> corners \o east_cut \o south_cut,
          image |-> << bw, bn, im_width_mm, im_height_mm >>,
          box |-> item.image.box ]

(***************************************************************************)
(* The state machine                                                       *)
(***************************************************************************)
NoImageSpec ==
    [ image_width |-> Whole(0), image_height |-> Whole(0),
      margin_left |-> 0, margin_top |-> 0,
      page_width |-> Whole(0), page_height |-> Whole(0) ]

Init ==
    /\ width_pixels \in PixelChoices
    /\ height_pixels \in PixelChoices
    /\ squares_wide \in SquareChoices
    /\ squares_high \in SquareChoices
    /\ border_north \in NearBorderChoices
    /\ border_west \in NearBorderChoices
    /\ border_east \in FarBorderChoices
    /\ border_south \in FarBorderChoices
    /\ overlap_east \in OverlapChoices
    /\ overlap_south \in OverlapChoices
    /\ paper \in PaperChoices
    /\ pc = "start"
    /\ error = "none"
    /\ plan = NoPlan("none") @@ NoLocals
    /\ images = NoImages
    /\ pdf = <<>>
    /\ image_spec = NoImageSpec

\* split_image(im, squares_wide, squares_high, ...)
SplitImage ==
    /\ pc = "start"
    /\ \E pixels_per_mm \in
            {PixelsPerMm(width_pixels, height_pixels, squares_wide, squares_high)} :
       \E width_mm \in {RDiv(Whole(width_pixels), pixels_per_mm)} :
       \E height_mm \in {RDiv(Whole(height_pixels), pixels_per_mm)} :
       \E pl \in {GetPageSize(width_mm, height_mm, Paper[paper].width, Paper[paper].height,
                              border_north, border_east, border_south, border_west,
                              overlap_east, overlap_south)} :
       \E g \in {Geometry(width_pixels, height_pixels, pixels_per_mm, pl,
                          overlap_east, overlap_south)} :
         /\ plan' = pl @@ [ pixels_per_mm |-> pixels_per_mm,
                            width_mm |-> width_mm, height_mm |-> height_mm ]
         /\ IF pl.err # "none"
            THEN /\ pc' = "failed"
                 /\ error' = pl.err
                 /\ images' = NoImages
            ELSE IF TilesRaise(g, pl.pages_horizontal, pl.pages_vertical)
            THEN /\ pc' = "failed"
                 /\ error' = "ValueError"
                 /\ images' = NoImages
            ELSE /\ pc' = "split"
                 /\ error' = "none"
                 /\ images' =
                      [ pixels_per_mm |-> pixels_per_mm,
                        images |-> TileImages(g, pl.pages_horizontal, pl.pages_vertical),
                        orientation |-> pl.orientation,
                        border |-> Borders(pl.orientation, border_north, border_east,
                                           border_south, border_west,
                                           overlap_east, overlap_south),
                        pages_horizontal |-> pl.pages_horizontal,
                        pages_vertical |-> pl.pages_vertical,
                        paper |-> paper ]
    /\ UNCHANGED <<inputs, pdf, image_spec>>

\* make_pdf(images, pdf_filename) on the dict split_image returned
MakePdf ==
    /\ pc = "split"
    /\ pdf' = [ i \in 1..Len(images.images) |-> PdfPage(images.images[i], images) ]
    /\ pc' = "pdf"
    /\ UNCHANGED <<inputs, error, plan, images, image_spec>>

\* process_image_with_border(im, squares_wide, squares_high, ...)
ProcessImageWithBorder ==
    /\ pc = "start"
    /\ LET pixels_per_mm == PixelsPerMm(width_pixels, height_pixels, squares_wide, squares_high)
           image_width_mm == RDiv(Whole(width_pixels), pixels_per_mm)
           image_height_mm == RDiv(Whole(height_pixels), pixels_per_mm)
       IN  image_spec' =
             [ image_width |-> image_width_mm,
               image_height |-> image_height_mm,
               margin_left |-> border_west,
               margin_top |-> border_north,
               page_width |-> RAdd(RAdd(image_width_mm, Whole(border_west)), Whole(border_east)),
               page_height |-> RAdd(RAdd(image_height_mm, Whole(border_north)),
                                    Whole(border_south)) ]
    /\ pc' = "bordered"
    /\ UNCHANGED <<inputs, error, plan, images, pdf>>

Next == SplitImage \/ MakePdf \/ ProcessImageWithBorder

Spec == Init /\ [][Next]_vars

(***************************************************************************)
(* Vocabulary of the properties                                            *)
(***************************************************************************)
\* split_image returned its dict
Planned == pc \in {"split", "pdf"}
\* split_image was called and has returned or raised
SplitCalled == pc \in {"split", "pdf", "failed"}

PrintableWidth == Paper[paper].width - (border_east + border_west)
PrintableHeight == Paper[paper].height - (border_north + border_south)
PositivePrintable == PrintableWidth > 0 /\ PrintableHeight > 0

Min(a, b) == IF a <= b THEN a ELSE b

\* the crop intervals of the tiles along the horizontal and the vertical axis
HorizontalSpans == { <<images.images[i].image.box[1], images.images[i].image.box[3]>> :
                        i \in 1..Len(images.images) }
VerticalSpans == { <<images.images[i].image.box[2], images.images[i].image.box[4]>> :
                      i \in 1..Len(images.images) }

\* every point of [0, extent] lies in one of the closed intervals
Covers(spans, extent) ==
    /\ \E a \in spans : RLe(a[1], Whole(0)) /\ RLe(Whole(0), a[2])
    /\ \A a \in spans :
         (RLe(Whole(0), a[2]) /\ RLt(a[2], Whole(extent)))
            => \E b \in spans : RLe(b[1], a[2]) /\ RLt(a[2], b[2])

\* the grid positions in the order x outer, y inner
GridOrder(pages_horizontal, pages_vertical) ==
    IF pages_horizontal <= 0 \/ pages_vertical <= 0 THEN <<>>
    ELSE [ i \in 1..(pages_horizontal * pages_vertical) |->
             << (i - 1) \div pages_vertical, (i - 1) % pages_vertical >> ]

CountP == plan.pages_horizontal_p * plan.pages_vertical_p
CountL == plan.pages_horizontal_l * plan.pages_vertical_l

\* the number of dashed lines of a page drawn by the given branches of tick
Dashed(page, dirs) ==
    Cardinality({ k \in 1..Len(page.lines) :
                    page.lines[k].dash /\ page.lines[k].dir \in dirs })

OnSheet(page, x, y) ==
    /\ RLe(Whole(0), x) /\ RLe(x, Whole(page.page_width))
    /\ RLe(Whole(0), y) /\ RLe(y, Whole(page.page_height))

IntendedWidth == RMul(Whole(squares_wide), MmPerInch)
IntendedHeight == RMul(Whole(squares_high), MmPerInch)

\* get_page_size for an image of the plan's page size on a paper of exactly
\* that size, without borders and overlaps
RoundTrip ==
    GetPageSize(Whole(plan.page_width), Whole(plan.page_height),
                plan.page_width, plan.page_height, 0, 0, 0, 0, 0, 0)

(***************************************************************************)
(* Properties                                                              *)
(***************************************************************************)

\* C1: with positive printable area, the tiles' crop intervals cover
\* [0, img_w] horizontally and [0, img_h] vertically without gaps, so the
\* last tile reaches the image's right and bottom edge.
C1_TilesCoverImage ==
    (Planned /\ PositivePrintable) =>
        /\ Covers(HorizontalSpans, width_pixels)
        /\ Covers(VerticalSpans, height_pixels)

\* C2: with positive printable area, the returned page count is the smaller
\* of the portrait and the landscape count, and a tie gives portrait.
C2_MinimalPageCount ==
    (Planned /\ PositivePrintable) =>
        /\ images.pages_horizontal * images.pages_vertical = Min(CountP, CountL)
        /\ (CountP = CountL) => images.orientation = "P"

C2_Witness ==
    /\ Planned /\ PositivePrintable
    /\ CountP = CountL /\ CountP > 1
    /\ images.orientation = "P"

\* C3: an axis whose extent fits in one printable span gets exactly one page,
\* whatever the overlap.
C3_SinglePageWhenFits ==
    (SplitCalled /\ plan.err = "none") =>
        /\ RLe(plan.width_mm, Whole(plan.printable_width)) => plan.pages_horizontal_p = 1
        /\ RLe(plan.height_mm, Whole(plan.printable_height)) => plan.pages_vertical_p = 1
        /\ RLe(plan.width_mm, Whole(plan.printable_height)) => plan.pages_horizontal_l = 1
        /\ RLe(plan.height_mm, Whole(plan.printable_width)) => plan.pages_vertical_l = 1

C3_Witness ==
    /\ Planned
    /\ overlap_east > 0
    /\ RLe(plan.width_mm, Whole(plan.printable_width))
    /\ RLt(Whole(plan.printable_width), RAdd(plan.width_mm, Whole(overlap_east)))
    /\ images.orientation = "P"
    /\ images.pages_horizontal = 1

\* C4: split_image returns one tile per grid position, each once, x outer and
\* y inner, pages_horizontal * pages_vertical of them when the printable area
\* is positive; make_pdf adds one page per tile in the same order.
C4_TilesInGridOrder ==
    LET grid == GridOrder(images.pages_horizontal, images.pages_vertical)
    IN  /\ Planned =>
            /\ Len(images.images) = Len(grid)
            /\ PositivePrintable =>
                 Len(images.images) = images.pages_horizontal * images.pages_vertical
            /\ \A i \in 1..Len(images.images) :
                 /\ images.images[i].key = FormatCoords(grid[i][1], grid[i][2])
                 /\ images.images[i].image.box =
                      CropBox(Geometry(width_pixels, height_pixels, plan.pixels_per_mm,
                                       plan, overlap_east, overlap_south),
                              grid[i][1], grid[i][2])
        /\ pc = "pdf" =>
            /\ Len(pdf) = Len(grid)
            /\ \A i \in 1..Len(pdf) :
                 /\ <<pdf[i].x, pdf[i].y>> = grid[i]
                 /\ pdf[i].box = images.images[i].image.box

C4_Witness ==
    /\ pc = "pdf"
    /\ images.pages_horizontal >= 2 /\ images.pages_vertical >= 3
    /\ Len(pdf) = images.pages_horizontal * images.pages_vertical
    /\ <<pdf[2].x, pdf[2].y>> = <<0, 1>>

\* C5: with positive printable area no crop rectangle leaves the image:
\* 0 <= left <= right <= img_w and 0 <= top <= bottom <= img_h.
C5_CropsWithinImage ==
    (Planned /\ PositivePrintable) =>
        \A i \in 1..Len(images.images) :
            LET box == images.images[i].image.box
            IN  /\ RLe(Whole(0), box[1]) /\ RLe(box[1], box[3])
                /\ RLe(box[3], Whole(width_pixels))
                /\ RLe(Whole(0), box[2]) /\ RLe(box[2], box[4])
                /\ RLe(box[4], Whole(height_pixels))

\* C6: a page carries the dashed south pair exactly when its tile is not in
\* the last row, and the dashed east pair exactly when it is not in the last
\* column.
C6_DashedMarksOnlyInside ==
    pc = "pdf" =>
        \A i \in 1..Len(pdf) :
            /\ Dashed(pdf[i], {"w", "e"}) =
                 (IF pdf[i].y # images.pages_vertical - 1 THEN 2 ELSE 0)
            /\ Dashed(pdf[i], {"n", "s"}) =
                 (IF pdf[i].x # images.pages_horizontal - 1 THEN 2 ELSE 0)
            /\ \A k \in 1..Len(pdf[i].lines) :
                 LET l == pdf[i].lines[k]
                 IN  l.dash =>
                       IF l.dir \in {"w", "e"}
                       THEN l.y1 = Whole(pdf[i].page_height - images.border[3])
                       ELSE l.x1 = Whole(pdf[i].page_width - images.border[2])

C6_Witness ==
    /\ pc = "pdf"
    /\ images.pages_horizontal >= 2 /\ images.pages_vertical >= 2
    /\ \E i \in 1..Len(pdf) :
         /\ pdf[i].x = images.pages_horizontal - 1
         /\ pdf[i].y = 0
         /\ Dashed(pdf[i], {"w", "e"}) = 2
         /\ Dashed(pdf[i], {"n", "s"}) = 0

\* C7: both endpoints of every line make_pdf draws lie on the sheet.
C7_MarksOnSheet ==
    pc = "pdf" =>
        \A i \in 1..Len(pdf) : \A k \in 1..Len(pdf[i].lines) :
            LET l == pdf[i].lines[k]
            IN  OnSheet(pdf[i], l.x1, l.y1) /\ OnSheet(pdf[i], l.x2, l.y2)

\* C8: with a non-positive printable area split_image fails with
\* InvalidGeometryError and returns no plan and no tiles.
C8_InvalidGeometryRejected ==
    (SplitCalled /\ ~PositivePrintable) =>
        pc = "failed" /\ error = "InvalidGeometryError"

\* C9: the physical size never exceeds the intended size on either axis.
C9_NeverOverScaled ==
    /\ SplitCalled =>
         RLe(plan.width_mm, IntendedWidth) /\ RLe(plan.height_mm, IntendedHeight)
    /\ pc = "bordered" =>
         /\ RLe(image_spec.image_width, IntendedWidth)
         /\ RLe(image_spec.image_height, IntendedHeight)

\* C9 as amended: the physical size is never below the intended size on
\* either axis, and equals it on at least one axis.
C9_NeverUnderScaled ==
    /\ SplitCalled =>
         /\ RLe(IntendedWidth, plan.width_mm) /\ RLe(IntendedHeight, plan.height_mm)
         /\ plan.width_mm = IntendedWidth \/ plan.height_mm = IntendedHeight
    /\ pc = "bordered" =>
         /\ RLe(IntendedWidth, image_spec.image_width)
         /\ RLe(IntendedHeight, image_spec.image_height)
         /\ \/ image_spec.image_width = IntendedWidth
            \/ image_spec.image_height = IntendedHeight

C9_Witness ==
    /\ SplitCalled
    /\ plan.width_mm = IntendedWidth
    /\ RLt(IntendedHeight, plan.height_mm)

\* C10: re-planning the plan's own page size as a custom paper without
\* borders and overlaps gives 1 x 1 pages.
C10_RoundTripSinglePage ==
    (Planned /\ PositivePrintable) =>
        /\ RoundTrip.err = "none"
        /\ RoundTrip.pages_horizontal = 1
        /\ RoundTrip.pages_vertical = 1


\* the printable span and the overlap that get_page_size used for the page
\* count of the chosen orientation, horizontally and vertically
ChosenPrintableH == IF images.orientation = "P" THEN PrintableWidth ELSE PrintableHeight
ChosenPrintableV == IF images.orientation = "P" THEN PrintableHeight ELSE PrintableWidth
ChosenOverlapH == IF images.orientation = "P" THEN overlap_east ELSE overlap_south
ChosenOverlapV == IF images.orientation = "P" THEN overlap_south ELSE overlap_east

\* C11: in the chosen orientation the planned page width is the printable
\* width less the overlap when there are several pages across and the
\* printable width when there is one, likewise the height, and the overlap
\* taken off is the one the axis's page count was computed with.
C11_PageShrinksByOverlap ==
    Planned =>
        /\ images.pages_horizontal = Pages(plan.width_mm, ChosenPrintableH, ChosenOverlapH)
        /\ images.pages_vertical = Pages(plan.height_mm, ChosenPrintableV, ChosenOverlapV)
        /\ images.pages_horizontal > 1 =>
             plan.page_width = ChosenPrintableH - ChosenOverlapH
        /\ images.pages_horizontal = 1 => plan.page_width = ChosenPrintableH
        /\ images.pages_vertical > 1 =>
             plan.page_height = ChosenPrintableV - ChosenOverlapV
        /\ images.pages_vertical = 1 => plan.page_height = ChosenPrintableV

C11_Witness ==
    /\ Planned /\ PositivePrintable
    /\ images.orientation = "L"
    /\ overlap_east # overlap_south /\ overlap_east > 0 /\ overlap_south > 0
    /\ images.pages_horizontal = 1 /\ images.pages_vertical > 1
    /\ plan.page_width = PrintableHeight
    /\ plan.page_height = PrintableWidth - overlap_east


\* the locals crop_for closed over in the call that produced the plan
PlanGeometry ==
    Geometry(width_pixels, height_pixels, plan.pixels_per_mm, plan,
             overlap_east, overlap_south)

\* the caller's margins that lie east, south, west and north of the page as
\* printed: the portrait margins, turned by 90 degrees in landscape
RotatedNorth == IF images.orientation = "P" THEN border_north ELSE border_east
RotatedEast == IF images.orientation = "P" THEN border_east ELSE border_south
RotatedSouth == IF images.orientation = "P" THEN border_south ELSE border_west
RotatedWest == IF images.orientation = "P" THEN border_west ELSE border_north

\* C12: in either orientation the overlap added to the page's east margin is
\* the horizontal tiling overlap of the crops and the one added to the south
\* margin is the vertical tiling overlap; so on every tile that is not in the
\* last column the dashed east cut line lies at border_west + planned page
\* width, and on every tile not in the last row the south cut line lies at
\* border_north + planned page height.
C12_CutLineAtNextTile ==
    /\ Planned =>
         /\ images.border[1] = RotatedNorth
         /\ images.border[4] = RotatedWest
         /\ RMul(plan.pixels_per_mm, Whole(images.border[2] - RotatedEast))
              = PlanGeometry.overlap_east_pixels
         /\ RMul(plan.pixels_per_mm, Whole(images.border[3] - RotatedSouth))
              = PlanGeometry.overlap_south_pixels
    /\ pc = "pdf" =>
         \A i \in 1..Len(pdf) : \A k \in 1..Len(pdf[i].lines) :
            LET l == pdf[i].lines[k]
            IN  l.dash =>
                  IF l.dir \in {"n", "s"}
                  THEN l.x1 = Whole(images.border[4] + plan.page_width)
                  ELSE l.y1 = Whole(images.border[1] + plan.page_height)


\* the width and height in mm of the box a tile was cropped with
BoxWidthMm(box) == RDiv(RSub(box[3], box[1]), plan.pixels_per_mm)
BoxHeightMm(box) == RDiv(RSub(box[4], box[2]), plan.pixels_per_mm)

\* C13: with positive printable area every tile fits in the printable area of
\* its sheet: the crop, and the image make_pdf places at (border_west,
\* border_north), is at most the chosen orientation's printable width wide
\* and printable height high; an axis planned as one page has an image
\* extent of at most the printable extent.
C13_TileFitsPrintableArea ==
    /\ (Planned /\ PositivePrintable) =>
         /\ images.pages_horizontal = 1 => RLe(plan.width_mm, Whole(ChosenPrintableH))
         /\ images.pages_vertical = 1 => RLe(plan.height_mm, Whole(ChosenPrintableV))
         /\ \A i \in 1..Len(images.images) :
              /\ RLe(BoxWidthMm(images.images[i].image.box), Whole(ChosenPrintableH))
              /\ RLe(BoxHeightMm(images.images[i].image.box), Whole(ChosenPrintableV))
    /\ (pc = "pdf" /\ PositivePrintable) =>
         \A i \in 1..Len(pdf) :
              /\ RLe(pdf[i].image[3], Whole(ChosenPrintableH))
              /\ RLe(pdf[i].image[4], Whole(ChosenPrintableV))


\* C14: with positive printable area split_image returns at least one page on
\* each axis and every tile's crop rectangle has positive width and height:
\* left < right and top < bottom, the left and top edge lying before the
\* image's right and bottom edge.
C14_NoEmptyPage ==
    (SplitCalled /\ PositivePrintable) =>
        /\ pc # "failed"
        /\ images.pages_horizontal >= 1
        /\ images.pages_vertical >= 1
        /\ Len(images.images) >= 1
        /\ \A i \in 1..Len(images.images) :
             LET box == images.images[i].image.box
             IN  /\ RLt(box[1], box[3]) /\ RLt(box[2], box[4])
                 /\ RLt(box[1], Whole(width_pixels))
                 /\ RLt(box[2], Whole(height_pixels))

\* a plan of several columns whose last column is narrower than a page
C14_Witness ==
    /\ Planned /\ PositivePrintable
    /\ images.pages_horizontal >= 2
    /\ LET last == images.images[Len(images.images)].image.box
       IN  /\ last[3] = Whole(width_pixels)
           /\ RLt(Whole(0), last[1])
           /\ RLt(last[1], last[3])
           /\ RLt(BoxWidthMm(last), Whole(plan.page_width))

====
